---- MODULE Spec2Model ----
(***************************************************************************)
(* POS Cam (src/app.js): tone adjustment, Atkinson dithering, quote        *)
(* selection, greedy text wrapping and polaroid composition.               *)
(*                                                                         *)
(* imageData.data is a Uint8ClampedArray: indices start at 0, a store      *)
(* converts the number to a byte (clamp to [0,255], round to nearest, ties *)
(* to even), a store outside the array is ignored.  Numbers that are not   *)
(* integers are kept as exact fractions num/den.  Every fraction that      *)
(* occurs has a denominator of 24 (dither) or FDen (tone); its distance to *)
(* a rounding boundary is either 0 (and then the double is exact) or at    *)
(* least 1/24, so the exact fraction rounds as the double does.            *)
(***************************************************************************)
EXTENDS Integers, Sequences, FiniteSets, TLC

VARIABLES
  \* atkinsonDither / applyExposure / applyContrast
  data,          \* imageData.data, a function 0..len-1 -> byte
  data0,         \* the buffer as it was when the current call started
  width, height, \* the width and height arguments of atkinsonDither
  dx, dy,        \* the loop variables x and y of atkinsonDither
  dpc,           \* "ready" | "loop" | "done", or the statement processDrawable
                 \* is at
  thrown,        \* the error the call ended with, "none" when it returned
  toneLog,       \* the tone calls made so far, each <<operation, factor>>,
                 \* the factor in units of 1/FDen
  \* getRandomQuote
  quotes, lastQuote, loaded,
  served,        \* the getRandomQuote calls made so far: the list each drew
                 \* from, lastQuote before and after, and what it returned
  \* getQuoteLines
  text, maxWidth,
  measured,      \* the widths measureText has answered so far
  words, lines, current, wi, wpc,
  \* capture and composition
  exposureFactor, contrastFactor,
  work,          \* elements.work: width, height and pixel data
  output,        \* elements.output: width, height, and whether it was drawn to
  glyphWidth,    \* the width measureText gives one character of the quote font
  render,        \* the latest renderPolaroid call: its source's width and
                 \* height; seq flips with every call
  quoteLines,    \* the wrapped quote of the latest renderPolaroid call
  status,        \* how the latest handler ended
  \* camera switching
  isCyclingCamera,
  stream,        \* <<>> for null, else <<deviceId of its video track>>
  videoDevices,  \* the deviceIds of the video inputs last enumerated
  currentDeviceIndex,
  flights,       \* the initCamera calls that have not returned yet
  calls          \* the cycleCamera calls made so far

ditherVars == <<data, data0, width, height, dx, dy, dpc, thrown>>
toneVars   == <<toneLog>>
quoteVars  == <<quotes, lastQuote, loaded, served>>
wrapVars   == <<text, maxWidth, measured, words, lines, current, wi, wpc>>
camVars    == <<exposureFactor, contrastFactor, work, output, glyphWidth, render,
               quoteLines, status>>
cycleVars  == <<isCyclingCamera, stream, videoDevices, currentDeviceIndex,
               flights, calls>>
vars == <<ditherVars, toneVars, quoteVars, wrapVars, camVars, cycleVars>>

----------------------------------------------------------------------------
(* Bounds of the model *)

MaxWidth  == 3
MaxHeight == 3
MaxPixels == 6

\* tone adjustment: the largest factor (in units of 1/FDen), the longest
\* buffer (in pixels) and the number of calls
MaxFactor     == 6
MaxTonePixels == 2
MaxToneOps    == 2

\* quotes: the longest fortunes.json list and the number of getRandomQuote calls
MaxQuotes == 3
MaxCalls  == 3

\* text wrapping: the longest text (in characters) and the largest width
\* measureText answers
MaxTextLen == 5
MaxMeasure == 2

\* capture: the largest width and height of a camera frame or uploaded image
MaxSrc == 2

\* sample pixels <<R, G, B, A>> the input buffers are built from
Pixels == { <<128, 128, 128, 255>>, <<255, 200, 100, 0>>, <<0, 3, 0, 17>> }

----------------------------------------------------------------------------
(* Numbers and buffers *)

Max(a, b) == IF a >= b THEN a ELSE b
Min(a, b) == IF a <= b THEN a ELSE b

\* the buffer holding the pixels px[1..n], four bytes each
Buffer(px) == [i \in 0..(4 * Len(px) - 1) |-> px[(i \div 4) + 1][(i % 4) + 1]]

BufLen(d) == Cardinality(DOMAIN d)

\* clamp(value) for value = num/den: the numerator of the clamped value
clamp(num, den) == Max(0, Min(255 * den, num))

\* the byte a Uint8ClampedArray stores for num/den (den > 0)
ToUint8Clamp(num, den) ==
  LET c == clamp(num, den)
      q == c \div den
      r == c % den
  IN  IF 2 * r < den THEN q
      ELSE IF 2 * r > den THEN q + 1
      ELSE IF q % 2 = 0 THEN q ELSE q + 1

----------------------------------------------------------------------------
(* atkinsonDither *)

\* error / 8 = (avg - newVal) / 8 = (R+G+B - 3*newVal) / DiffDen
DiffDen == 3 * 8

quantizeStrict(sum) == IF sum < 3 * 128 THEN 0 ELSE 255

\* newVal = avg <= 128 ? 0 : 255, with avg = sum / 3
quantize(sum) == IF sum <= 3 * 128 THEN 0 ELSE 255

writePixelNoAlpha(d, idx, newVal) ==
  [i \in DOMAIN d |-> IF i \in {idx, idx + 1, idx + 2} THEN newVal ELSE d[i]]

\* data[idx] = data[idx+1] = data[idx+2] = newVal; data[idx+3] = 255
writePixel(d, idx, newVal) ==
  [i \in DOMAIN d |-> IF i \in {idx, idx + 1, idx + 2} THEN newVal
                      ELSE IF i = idx + 3 THEN 255 ELSE d[i]]

distributeWraps(d, w, h, nx, ny, diff) ==
  IF ny < 0 \/ ny >= h THEN d
  ELSE LET nIdx == (ny * w + nx) * 4
       IN  [i \in DOMAIN d |->
              IF i \in {nIdx, nIdx + 1, nIdx + 2}
              THEN ToUint8Clamp(d[i] * DiffDen + diff, DiffDen)
              ELSE d[i]]

\* distribute(nx, ny, value) with value = diff / DiffDen
distribute(d, w, h, nx, ny, diff) ==
  IF nx < 0 \/ nx >= w \/ ny < 0 \/ ny >= h THEN d
  ELSE LET nIdx == (ny * w + nx) * 4
       IN  [i \in DOMAIN d |->
              IF i \in {nIdx, nIdx + 1, nIdx + 2}
              THEN ToUint8Clamp(d[i] * DiffDen + diff, DiffDen)
              ELSE d[i]]

\* the body of the inner loop for the pixel (x, y).  A pixel outside the
\* buffer reads undefined: every neighbour it would write lies further on,
\* outside the buffer as well, and the stores are ignored.
ditherPixel(d, w, h, x, y) ==
  LET idx == (y * w + x) * 4
  IN  IF idx \notin DOMAIN d THEN d
      ELSE LET sum    == d[idx] + d[idx + 1] + d[idx + 2]
               newVal == quantize(sum)
               diff   == sum - 3 * newVal
               d0 == writePixel(d, idx, newVal)
               d1 == distribute(d0, w, h, x + 1, y, diff)
               d2 == distribute(d1, w, h, x + 2, y, diff)
               d3 == distribute(d2, w, h, x - 1, y + 1, diff)
               d4 == distribute(d3, w, h, x, y + 1, diff)
               d5 == distribute(d4, w, h, x + 1, y + 1, diff)
           IN  distribute(d5, w, h, x, y + 2, diff)

\* the call: the loops run no iteration when width or height is not positive
atkinsonDither ==
  /\ dpc = "ready"
  /\ dx' = 0 /\ dy' = 0
  /\ dpc' = IF width > 0 /\ height > 0 THEN "loop" ELSE "done"
  /\ UNCHANGED <<data, data0, width, height, thrown>>

\* one iteration of the inner loop, then x++ (and y++, x = 0 at a row's end)
ditherStep ==
  /\ dpc = "loop"
  /\ data' = ditherPixel(data, width, height, dx, dy)
  /\ IF dx + 1 < width
       THEN dx' = dx + 1 /\ dy' = dy /\ dpc' = "loop"
       ELSE /\ dx' = 0 /\ dy' = dy + 1
            /\ dpc' = IF dy + 1 < height THEN "loop" ELSE "done"
  /\ UNCHANGED <<data0, width, height, thrown>>

\* the pixel sequences of length n
PixelSeqs(n) == [1..n -> Pixels]

\* widths, heights and buffers: the buffer holds width*height pixels, or one
\* fewer, or one more
DitherInputs ==
  { <<w, h, n>> \in ((-1)..MaxWidth) \X ((-1)..MaxHeight) \X (0..MaxPixels) :
      /\ w * h <= MaxPixels
      /\ n \in {w * h - 1, w * h, w * h + 1} }

ToneIdle == toneLog = <<>>
QuoteIdle == /\ quotes = <<>> /\ lastQuote = <<>> /\ loaded = FALSE
             /\ served = <<>>
WrapIdle == /\ text = <<>> /\ maxWidth = 0 /\ measured = <<>> /\ words = <<>>
            /\ lines = <<>> /\ current = <<>> /\ wi = 1 /\ wpc = "ready"
CamIdle == /\ exposureFactor = 0 /\ contrastFactor = 0
           /\ work = [width |-> 0, height |-> 0, data |-> <<>>]
           /\ output = [width |-> 0, height |-> 0, drawn |-> FALSE]
           /\ glyphWidth = 0
           /\ render = [called |-> FALSE, seq |-> 0, width |-> 0, height |-> 0]
           /\ quoteLines = <<>> /\ status = "none"
CycleIdle == /\ isCyclingCamera = FALSE /\ stream = <<>> /\ videoDevices = <<>>
             /\ currentDeviceIndex = 0 /\ flights = <<>> /\ calls = <<>>
DitherIdle == /\ data = <<>> /\ data0 = <<>> /\ width = 0 /\ height = 0
              /\ dx = 0 /\ dy = 0 /\ dpc = "ready" /\ thrown = "none"

----------------------------------------------------------------------------
(* Claims about atkinsonDither *)

\* the buffer holds exactly width*height pixels, width and height positive
WellShaped ==
  width >= 1 /\ height >= 1 /\ BufLen(data0) = width * height * 4

Degenerate ==
  width <= 0 \/ height <= 0 \/ BufLen(data0) # width * height * 4

\* C1: after atkinsonDither returns on a buffer of exactly width*height*4
\* bytes, width and height >= 1, every pixel has R = G = B in {0, 255} and
\* A = 255, whatever the input bytes were.
C1_DitherBinary ==
  (dpc = "done" /\ WellShaped) =>
    \A p \in 0..(width * height - 1) :
      /\ data[4 * p] \in {0, 255}
      /\ data[4 * p + 1] = data[4 * p]
      /\ data[4 * p + 2] = data[4 * p]
      /\ data[4 * p + 3] = 255

\* a finished pass over a 2x2 or larger buffer whose first pixel had unequal
\* channels and an alpha other than 255, and that produced black and white
C1_Witness ==
  /\ dpc = "done" /\ WellShaped /\ width >= 2 /\ height >= 2
  /\ data0[0] # data0[1] /\ data0[3] # 255
  /\ \E p, q \in 0..(width * height - 1) : data[4 * p] = 0 /\ data[4 * q] = 255

Gray2x2 ==
  /\ width = 2 /\ height = 2 /\ BufLen(data0) = 16
  /\ \A p \in 0..3 : \A c \in 0..2 : data0[4 * p + c] = 128

\* C5: on a 2x2 buffer whose R, G and B bytes are all 128 the pass produces,
\* in scan order (0,0),(1,0),(0,1),(1,1), the pixel values 0, 255, 255, 0.
C5_Gray2x2Result ==
  (dpc = "done" /\ Gray2x2) =>
    \A c \in 0..2 :
      /\ data[0 + c] = 0 /\ data[4 + c] = 255
      /\ data[8 + c] = 255 /\ data[12 + c] = 0

C5_Witness == dpc = "done" /\ Gray2x2

\* C8: called with width <= 0, or height <= 0, or a buffer whose length
\* differs from width*height*4, atkinsonDither fails with a size/shape error
\* and has written no byte of the buffer.
C8_DegenerateFails ==
  (dpc = "done" /\ Degenerate) => (thrown = "ShapeError" /\ data = data0)

\* the six neighbours of Atkinson's pattern, as offsets <<x, y>>
Offsets == { <<1, 0>>, <<2, 0>>, <<-1, 1>>, <<0, 1>>, <<1, 1>>, <<0, 2>> }

\* the pixel with index p (in raster order) has another byte after this step
PixelChanged(p) == \E c \in 0..3 : data'[4 * p + c] # data[4 * p + c]

\* the pixel with index p is a neighbour of (dx, dy) inside the grid
IsNeighbour(p) ==
  \E o \in Offsets :
    /\ dx + o[1] >= 0 /\ dx + o[1] < width
    /\ dy + o[2] >= 0 /\ dy + o[2] < height
    /\ p = (dy + o[2]) * width + (dx + o[1])

\* C12: while atkinsonDither processes pixel (x,y), the only other pixels it
\* changes are those of (x+1,y), (x+2,y), (x-1,y+1), (x,y+1), (x+1,y+1),
\* (x,y+2) that lie inside [0,width) x [0,height); an offset outside the grid
\* changes no pixel (it does not wrap to another row), and no pixel quantized
\* earlier in raster order is changed again.
C12_OnlyNeighboursInGrid ==
  [][dpc = "loop" =>
       \A p \in 0..((BufLen(data) \div 4) - 1) :
         (PixelChanged(p) /\ p # dy * width + dx) =>
           (IsNeighbour(p) /\ p > dy * width + dx)]_vars

\* a 3x2 pass that has finished its first row: the three pixels are quantized,
\* the last of them, at the right edge, had (x+1,y) and (x+2,y) outside the
\* grid, and the pixel below it has received error
C12_Witness ==
  /\ dpc = "loop" /\ WellShaped /\ width = 3 /\ height = 2
  /\ dx = 0 /\ dy = 1
  /\ \A p \in 0..2 : data[4 * p] \in {0, 255} /\ data[4 * p + 3] = 255
  /\ \E c \in 0..2 : data[20 + c] # data0[20 + c]
  /\ \E c \in 0..2 : data[12 + c] # data0[12 + c]

InitDither ==
  /\ \E in \in DitherInputs : \E px \in PixelSeqs(in[3]) :
       /\ width = in[1] /\ height = in[2]
       /\ data = Buffer(px) /\ data0 = Buffer(px)
  /\ dx = 0 /\ dy = 0 /\ dpc = "ready" /\ thrown = "none"
  /\ ToneIdle /\ QuoteIdle /\ WrapIdle /\ CamIdle /\ CycleIdle

NextDither ==
  \/ atkinsonDither /\ UNCHANGED <<toneVars, quoteVars, wrapVars, camVars, cycleVars>>
  \/ ditherStep /\ UNCHANGED <<toneVars, quoteVars, wrapVars, camVars, cycleVars>>

SpecDither == InitDither /\ [][NextDither]_vars

----------------------------------------------------------------------------
(* applyExposure, applyContrast *)

\* a factor f stands for the number f / FDen; fourths are exact doubles
FDen == 2 * 2

Factors == 0..MaxFactor

applyExposureFloor(d, f) ==
  IF f = FDen THEN d
  ELSE [i \in DOMAIN d |->
          IF i % 4 \in {0, 1, 2} THEN clamp(d[i] * f, FDen) \div FDen ELSE d[i]]

\* if (factor === 1) return; else every R, G, B byte c becomes clamp(c * factor)
applyExposure(d, f) ==
  IF f = FDen THEN d
  ELSE [i \in DOMAIN d |->
          IF i % 4 \in {0, 1, 2} THEN ToUint8Clamp(d[i] * f, FDen) ELSE d[i]]

midpoint == 128

applyContrastNoMidpoint(d, f) ==
  [i \in DOMAIN d |->
     IF i % 4 \in {0, 1, 2} THEN ToUint8Clamp((d[i] - midpoint) * f, FDen) ELSE d[i]]

\* if (factor === 1) return; else c becomes clamp((c - midpoint) * factor + midpoint)
applyContrast(d, f) ==
  IF f = FDen THEN d
  ELSE [i \in DOMAIN d |->
          IF i % 4 \in {0, 1, 2}
          THEN ToUint8Clamp((d[i] - midpoint) * f + midpoint * FDen, FDen)
          ELSE d[i]]

callExposure ==
  /\ Len(toneLog) < MaxToneOps
  /\ \E f \in Factors :
       /\ data' = applyExposure(data, f)
       /\ toneLog' = Append(toneLog, <<"exposure", f>>)
  /\ data0' = data
  /\ UNCHANGED <<width, height, dx, dy, dpc, thrown>>

callContrast ==
  /\ Len(toneLog) < MaxToneOps
  /\ \E f \in Factors :
       /\ data' = applyContrast(data, f)
       /\ toneLog' = Append(toneLog, <<"contrast", f>>)
  /\ data0' = data
  /\ UNCHANGED <<width, height, dx, dy, dpc, thrown>>

InitTone ==
  /\ \E n \in 1..MaxTonePixels : \E px \in PixelSeqs(n) :
       data = Buffer(px) /\ data0 = Buffer(px)
  /\ width = 0 /\ height = 0 /\ dx = 0 /\ dy = 0 /\ dpc = "ready"
  /\ thrown = "none"
  /\ ToneIdle /\ QuoteIdle /\ WrapIdle /\ CamIdle /\ CycleIdle

NextTone ==
  \/ callExposure /\ UNCHANGED <<quoteVars, wrapVars, camVars, cycleVars>>
  \/ callContrast /\ UNCHANGED <<quoteVars, wrapVars, camVars, cycleVars>>

SpecTone == InitTone /\ [][NextTone]_vars

\* C7: applyExposure with factor exactly 1 and applyContrast with factor
\* exactly 1 each leave every byte of the buffer (R, G, B and A of every
\* pixel) unchanged.
C7_FactorOneNoOp ==
  (toneLog # <<>> /\ toneLog[Len(toneLog)][2] = FDen) => data = data0

\* an exposure at factor 1 followed by a contrast at factor 1, on a buffer
\* with bytes other than 0, 128 and 255
C7_Witness ==
  /\ toneLog = << <<"exposure", FDen>>, <<"contrast", FDen>> >>
  /\ \E i \in DOMAIN data : data[i] \notin {0, 128, 255}

\* the latest tone call was applyExposure with a factor other than 1
ExposureApplied ==
  /\ toneLog # <<>>
  /\ toneLog[Len(toneLog)][1] = "exposure"
  /\ toneLog[Len(toneLog)][2] # FDen

LastFactor == toneLog[Len(toneLog)][2]

\* C11 as stated: for every factor >= 0 other than 1 and every channel byte c,
\* applyExposure stores in each of R, G, B the value clamp(c * factor) with its
\* fractional part dropped.
C11_ExposureTruncates ==
  ExposureApplied =>
    \A i \in DOMAIN data :
      i % 4 \in {0, 1, 2} => data[i] = clamp(data0[i] * LastFactor, FDen) \div FDen

\* C11, amended: applyExposure stores in each of R, G, B the integer nearest to
\* clamp(c * factor), the even one of the two when clamp(c * factor) lies
\* halfway between two integers.
C11_ExposureRoundsToNearestEven ==
  ExposureApplied =>
    \A i \in DOMAIN data :
      i % 4 \in {0, 1, 2} =>
        LET off == data[i] * FDen - clamp(data0[i] * LastFactor, FDen)
            dist == IF off >= 0 THEN off ELSE -off
        IN  /\ data[i] \in 0..255
            /\ 2 * dist <= FDen
            /\ 2 * dist = FDen => data[i] % 2 = 0

\* an exposure that stored one byte rounded up from a half, one rounded down
\* from a half, and one clamped to 255
C11_Witness ==
  /\ ExposureApplied
  /\ \E i, j, k \in DOMAIN data :
       /\ i % 4 \in {0, 1, 2} /\ j % 4 \in {0, 1, 2} /\ k % 4 \in {0, 1, 2}
       /\ 2 * (data[i] * FDen - data0[i] * LastFactor) = FDen
       /\ 2 * (data0[j] * LastFactor - data[j] * FDen) = FDen
       /\ data0[k] * LastFactor > 255 * FDen /\ data[k] = 255

----------------------------------------------------------------------------
(* Strings: a string is a sequence of one-character strings *)

Whitespace == {" "}

IsBlank(s) == \A i \in 1..Len(s) : s[i] \in Whitespace

\* String.prototype.trim
trim(s) ==
  IF IsBlank(s) THEN <<>>
  ELSE LET first == CHOOSE i \in 1..Len(s) :
                      s[i] \notin Whitespace /\ \A j \in 1..(i - 1) : s[j] \in Whitespace
           last  == CHOOSE i \in 1..Len(s) :
                      s[i] \notin Whitespace /\ \A j \in (i + 1)..Len(s) : s[j] \in Whitespace
       IN  SubSeq(s, first, last)

Range(f) == {f[i] : i \in DOMAIN f}


----------------------------------------------------------------------------
(* loadQuotes, getRandomQuote *)

\* the entries a fortunes.json may hold: quotes, and blank strings
QuoteTexts == { <<"a">>, <<"b">>, <<"a", " ", "b">> }
Entries == QuoteTexts \cup { <<>>, <<" ">> }

Incoming == UNION { [1..n -> Entries] : n \in 0..MaxQuotes }

\* entry => typeof entry === 'string' && entry.trim().length
keepEntry(entry) == Len(trim(entry)) > 0

\* quotes = incoming.filter(entry => typeof entry === 'string' && entry.trim().length),
\* or [] when the request fails; bootstrap calls it once
loadQuotes ==
  /\ ~loaded
  /\ loaded' = TRUE
  /\ \/ \E incoming \in Incoming :
          quotes' = SelectSeq(incoming, keepEntry)
     \/ quotes' = <<>>
  /\ UNCHANGED <<lastQuote, served>>

\* Array.prototype.indexOf, 0-based, for an element of the array
indexOf(qs, e) == (CHOOSE i \in 1..Len(qs) : qs[i] = e /\ \A j \in 1..(i - 1) : qs[j] # e) - 1

selectQuoteSingleStale(qs, last, r) ==
  IF Len(qs) = 1 THEN [ret |-> qs[1], last |-> last]
  ELSE LET drawn == qs[r + 1]
           next  == IF drawn = last
                      THEN qs[((indexOf(qs, drawn) + 1) % Len(qs)) + 1]
                      ELSE drawn
       IN  [ret |-> next, last |-> next]

\* getRandomQuote on a non-empty list, r = Math.floor(Math.random() * quotes.length):
\* what it returns and what it leaves in lastQuote
selectQuote(qs, last, r) ==
  IF Len(qs) = 1 THEN [ret |-> qs[1], last |-> qs[1]]
  ELSE LET drawn == qs[r + 1]
           next  == IF drawn = last
                      THEN qs[((indexOf(qs, drawn) + 1) % Len(qs)) + 1]
                      ELSE drawn
       IN  [ret |-> next, last |-> next]

\* getRandomQuote for the draw r: '' and no change on an empty list
randomQuote(qs, last, r) ==
  IF Len(qs) = 0 THEN [ret |-> <<>>, last |-> last] ELSE selectQuote(qs, last, r)

getRandomQuote ==
  /\ Len(served) < MaxCalls
  /\ \E r \in 0..Max(0, Len(quotes) - 1) :
       LET res == randomQuote(quotes, lastQuote, r)
       IN  /\ lastQuote' = res.last
           /\ served' = Append(served, [quotes |-> quotes, before |-> lastQuote,
                                        ret |-> res.ret, after |-> res.last])
  /\ UNCHANGED <<quotes, loaded>>

InitQuote ==
  /\ quotes = <<>> /\ lastQuote = <<>> /\ loaded = FALSE /\ served = <<>>
  /\ DitherIdle /\ ToneIdle /\ WrapIdle /\ CamIdle /\ CycleIdle

NextQuote ==
  \/ loadQuotes /\ UNCHANGED <<ditherVars, toneVars, wrapVars, camVars, cycleVars>>
  \/ getRandomQuote /\ UNCHANGED <<ditherVars, toneVars, wrapVars, camVars, cycleVars>>

SpecQuote == InitQuote /\ [][NextQuote]_vars

\* C2: for any quote list that contains at least 2 distinct strings
\* (duplicates allowed), any value of lastQuote and any sequence of random
\* draws, two consecutive calls of getRandomQuote never return the same string.
C2_NoImmediateRepeat ==
  \A i \in 1..(Len(served) - 1) :
    (served[i].quotes = served[i + 1].quotes
       /\ Cardinality(Range(served[i].quotes)) >= 2)
    => served[i].ret # served[i + 1].ret

\* C10: getRandomQuote called with an empty quote list returns the empty
\* string and leaves lastQuote unchanged; called with a non-empty list it
\* returns a member of the list and lastQuote equals the returned string
\* afterwards.
C10_QuoteResult ==
  \A i \in 1..Len(served) :
    IF served[i].quotes = <<>>
      THEN served[i].ret = <<>> /\ served[i].after = served[i].before
      ELSE served[i].ret \in Range(served[i].quotes) /\ served[i].after = served[i].ret

\* a call on the empty list, then calls on a loaded list of several quotes,
\* the latest of which replaced a lastQuote that was already set
C10_Witness ==
  /\ Len(served) >= 2
  /\ served[1].quotes = <<>>
  /\ Len(served[Len(served)].quotes) >= 2
  /\ served[Len(served)].before # <<>>
  /\ served[Len(served)].after # served[Len(served)].before
  /\ lastQuote = served[Len(served)].ret

----------------------------------------------------------------------------
(* getQuoteLines *)

Chars == {"a", " "}
Texts == UNION { [1..n -> Chars] : n \in 0..MaxTextLen }

\* content.split(/\s+/) for a trimmed, non-empty content
RECURSIVE split(_)
split(s) ==
  IF s = <<>> THEN <<>>
  ELSE IF Head(s) \in Whitespace THEN split(Tail(s))
  ELSE LET n == IF \E i \in 1..Len(s) : s[i] \in Whitespace
                  THEN (CHOOSE i \in 1..Len(s) :
                          s[i] \in Whitespace /\ \A j \in 1..(i - 1) : s[j] \notin Whitespace) - 1
                  ELSE Len(s)
       IN  <<SubSeq(s, 1, n)>> \o split(SubSeq(s, n + 1, Len(s)))

\* current ? `${current} ${word}` : word
candidateOf(cur, word) == IF cur # <<>> THEN cur \o <<" ">> \o word ELSE word

acceptsStrict(w, maxW, cur) == w < maxW \/ cur = <<>>

acceptsOffByOne(w, maxW, cur) == w <= maxW + 1 \/ cur = <<>>

\* measureText(candidate).width <= maxWidth || !current
accepts(w, maxW, cur) == w <= maxW \/ cur = <<>>

\* the loop body for one word whose candidate measures w
wrapWord(lns, cur, word, w, maxW) ==
  IF accepts(w, maxW, cur)
    THEN [lines |-> lns, current |-> candidateOf(cur, word)]
    ELSE [lines |-> Append(lns, cur), current |-> word]

finishNoPush(lns, cur) == lns

\* if (current) lines.push(current)
finish(lns, cur) == IF cur # <<>> THEN Append(lns, cur) ELSE lns

\* the call up to the loop: trim, return [] for an empty content, split
getQuoteLines ==
  /\ wpc = "ready"
  /\ LET content == trim(text)
     IN  IF content = <<>>
           THEN words' = <<>> /\ wpc' = "done"
           ELSE words' = split(content) /\ wpc' = "loop"
  /\ lines' = <<>> /\ current' = <<>> /\ wi' = 1
  /\ UNCHANGED <<text, maxWidth, measured>>

\* one iteration of the loop over words; after the last word, the final push.
\* measureText answers any width, and the same width for the same string.
wrapStep ==
  /\ wpc = "loop"
  /\ LET word      == words[wi]
         candidate == candidateOf(current, word)
     IN  \E w \in 0..MaxMeasure :
           /\ candidate \in DOMAIN measured => w = measured[candidate]
           /\ measured' = (candidate :> w) @@ measured
           /\ LET nxt == wrapWord(lines, current, word, w, maxWidth)
              IN  IF wi < Len(words)
                    THEN /\ current' = nxt.current /\ lines' = nxt.lines
                         /\ wi' = wi + 1 /\ wpc' = "loop"
                    ELSE /\ current' = nxt.current
                         /\ lines' = finish(nxt.lines, nxt.current)
                         /\ wi' = wi + 1 /\ wpc' = "done"
  /\ UNCHANGED <<text, maxWidth, words>>

InitWrap ==
  /\ text \in Texts
  /\ maxWidth \in 0..MaxMeasure
  /\ \E w \in 0..MaxMeasure : measured = (text :> w)
  /\ words = <<>> /\ lines = <<>> /\ current = <<>> /\ wi = 1 /\ wpc = "ready"
  /\ DitherIdle /\ ToneIdle /\ QuoteIdle /\ CamIdle /\ CycleIdle

NextWrap ==
  \/ getQuoteLines /\ UNCHANGED <<ditherVars, toneVars, quoteVars, camVars, cycleVars>>
  \/ wrapStep /\ UNCHANGED <<ditherVars, toneVars, quoteVars, camVars, cycleVars>>

SpecWrap == InitWrap /\ [][NextWrap]_vars

\* the words w[1..k] joined by single spaces
RECURSIVE joinWords(_, _)
joinWords(w, k) ==
  IF k = 0 THEN <<>>
  ELSE IF k = 1 THEN w[1]
  ELSE joinWords(w, k - 1) \o <<" ">> \o w[k]

TextWords == split(trim(text))

\* C3 as stated: if the measured width of the whole text is at most maxWidth,
\* getQuoteLines returns exactly one line, equal to the trimmed text.
C3_FitsOneLineTrimmed ==
  (wpc = "done" /\ measured[text] <= maxWidth) => lines = <<trim(text)>>

\* C3, amended: if the text has at least one word and every leading run of two
\* or more of its words, joined by single spaces, measures at most maxWidth,
\* getQuoteLines returns exactly one line: the words joined by single spaces.
C3_FitsOneLineNormalised ==
  (/\ wpc = "done"
   /\ TextWords # <<>>
   /\ \A k \in 2..Len(TextWords) :
        joinWords(TextWords, k) \in DOMAIN measured
          => measured[joinWords(TextWords, k)] <= maxWidth)
  => lines = <<joinWords(TextWords, Len(TextWords))>>

\* a text of several words with surrounding or doubled whitespace, every
\* measured run fitting, wrapped into its one normalised line
C3_Witness ==
  /\ wpc = "done"
  /\ Len(TextWords) >= 2
  /\ trim(text) # joinWords(TextWords, Len(TextWords))
  /\ \A k \in 2..Len(TextWords) :
       /\ joinWords(TextWords, k) \in DOMAIN measured
       /\ measured[joinWords(TextWords, k)] <= maxWidth
  /\ lines = <<joinWords(TextWords, Len(TextWords))>>

\* C4: every returned line that contains two or more words has measured width
\* at most maxWidth; a line may exceed maxWidth only when it is a single word.
C4_MultiWordLinesFit ==
  wpc = "done" =>
    \A i \in 1..Len(lines) :
      Len(split(lines[i])) >= 2 =>
        (lines[i] \in DOMAIN measured /\ measured[lines[i]] <= maxWidth)

\* a wrap into several lines, one of two words that fits and one of a single
\* word wider than maxWidth
C4_Witness ==
  /\ wpc = "done"
  /\ \E i, j \in 1..Len(lines) :
       /\ Len(split(lines[i])) >= 2 /\ measured[lines[i]] <= maxWidth
       /\ Len(split(lines[j])) = 1 /\ lines[j] \in DOMAIN measured
       /\ measured[lines[j]] > maxWidth

----------------------------------------------------------------------------
(* Capture and composition: processDrawable, renderPolaroid, the handlers *)

photoWidth       == 440
framePadding     == 12
frameBottom      == 60
quoteLineHeight  == 22
quoteBlockTop    == 10
quoteBlockBottom == 12

\* the whole of atkinsonDither: ditherPixel for the pixels p, p+1, ... in raster order
RECURSIVE ditherFrom(_, _, _, _)
ditherFrom(d, w, h, p) ==
  IF w <= 0 \/ h <= 0 \/ p >= w * h THEN d
  ELSE ditherFrom(ditherPixel(d, w, h, p % w, p \div w), w, h, p + 1)

\* processDrawable's pixel pass on what getImageData returned
processPixels(d, w, h, ef, cf) ==
  ditherFrom(applyContrast(applyExposure(d, ef), cf), w, h, 0)

\* getQuoteLines with measureText(s).width = cw * s.length
RECURSIVE wrapFrom(_, _, _, _, _, _)
wrapFrom(ws, i, lns, cur, cw, maxW) ==
  IF i > Len(ws) THEN finish(lns, cur)
  ELSE LET nxt == wrapWord(lns, cur, ws[i], cw * Len(candidateOf(cur, ws[i])), maxW)
       IN  wrapFrom(ws, i + 1, nxt.lines, nxt.current, cw, maxW)

quoteLinesOf(txt, cw, maxW) ==
  IF trim(txt) = <<>> THEN <<>> ELSE wrapFrom(split(trim(txt)), 1, <<>>, <<>>, cw, maxW)

\* a JavaScript number: an integer, or NaN, or Infinity
Num(v)   == [kind |-> "number", value |-> v]
NaN      == [kind |-> "NaN", value |-> 0]
Infinity == [kind |-> "Infinity", value |-> 0]

\* Math.round((photoWidth / source.width) * source.height).  Division by zero
\* gives Infinity (or NaN for 0/0 * 0), and rounding keeps it.  Math.round
\* rounds halves up; within MaxSrc the quotient is never within 1/6 of a half.
photoHeightOf(sw, sh) ==
  IF sw = 0 THEN (IF sh = 0 THEN NaN ELSE Infinity)
  ELSE Num((2 * photoWidth * sh + sw) \div (2 * sw))

\* quoteLines.length ? quoteLineHeight * length + padding.top + padding.bottom : 0
quotePadding(n) ==
  IF n > 0 THEN quoteLineHeight * n + quoteBlockTop + quoteBlockBottom ELSE 0

\* photoHeight + frame.padding * 2 + frame.bottom + quotePadding
canvasHeightOf(ph, n) ==
  IF ph.kind # "number" THEN ph
  ELSE Num(ph.value + framePadding * 2 + frameBottom + quotePadding(n))

\* a canvas's width and height are unsigned longs: NaN and Infinity become 0
ToUnsignedLong(v) == IF v.kind # "number" THEN 0 ELSE v.value

\* elements.output after renderPolaroid has assigned its width and height and
\* filled it
renderPolaroid(sw, sh, lns) ==
  [width  |-> ToUnsignedLong(Num(photoWidth + framePadding * 2)),
   height |-> ToUnsignedLong(canvasHeightOf(photoHeightOf(sw, sh), Len(lns))),
   drawn  |-> TRUE]

\* the frames a camera or a file delivers: n pixels of one colour
Frames(n) == { [i \in 1..n |-> p] : p \in Pixels }

\* What the canvas does with an empty rectangle is the host's business and not
\* in the source: getImageData of a zero-area rectangle and drawImage of a
\* zero-area canvas may each throw, or not.
HostOutcomes(w, h) ==
  IF w = 0 \/ h = 0 THEN {"ok", "getImageData throws", "drawImage throws"}
  ELSE {"ok"}

\* processDrawable(drawable, w, h), then renderPolaroid(source, getRandomQuote()).
\* The source handed on has the width and height processDrawable was given;
\* neither function checks them.
captureAndRender(w, h, doneStatus, threwEarly, threwLate) ==
  \E frame \in Frames(w * h) : \E host \in HostOutcomes(w, h) :
  \E r \in 0..Max(0, Len(quotes) - 1) :
    IF host = "getImageData throws"
      THEN /\ work' = [width |-> w, height |-> h, data |-> <<>>]
           /\ status' = threwEarly
           /\ UNCHANGED <<output, render, quoteLines, lastQuote>>
      ELSE LET q   == randomQuote(quotes, lastQuote, r)
               lns == quoteLinesOf(q.ret, glyphWidth, photoWidth - 24)
           IN  /\ work' = [width |-> w, height |-> h,
                           data |-> processPixels(Buffer(frame), w, h,
                                                  exposureFactor, contrastFactor)]
               /\ lastQuote' = q.last
               /\ quoteLines' = lns
               /\ render' = [called |-> TRUE, seq |-> 1 - render.seq,
                             width |-> w, height |-> h]
               /\ output' = renderPolaroid(w, h, lns)
               /\ status' = IF host = "drawImage throws" THEN threwLate
                            ELSE doneStatus

\* handleCapture: captureFrame returns null unless videoWidth is truthy
handleCapture ==
  /\ \E vw, vh \in 0..MaxSrc :
       IF vw = 0
         THEN /\ status' = "camera not ready"
              /\ UNCHANGED <<work, output, render, quoteLines, lastQuote>>
         ELSE captureAndRender(vw, vh, "captured", "uncaught", "uncaught")
  /\ UNCHANGED <<exposureFactor, contrastFactor, glyphWidth, quotes, loaded, served>>

\* handleFallbackSelection with an image: processImageFile passes naturalWidth
\* and naturalHeight on unchecked.  An exception inside img.onload leaves the
\* promise pending; one inside renderPolaroid is caught and reported.
handleFallbackImage ==
  /\ \E nw, nh \in 0..MaxSrc :
       captureAndRender(nw, nh, "processed", "pending", "error")
  /\ UNCHANGED <<exposureFactor, contrastFactor, glyphWidth, quotes, loaded, served>>

\* handleFallbackSelection with a video: processVideoFile rejects a video
\* without videoWidth or videoHeight
handleFallbackVideo ==
  /\ \E vw, vh \in 0..MaxSrc :
       IF vw = 0 \/ vh = 0
         THEN /\ status' = "error"
              /\ UNCHANGED <<work, output, render, quoteLines, lastQuote>>
         ELSE captureAndRender(vw, vh, "processed", "pending", "error")
  /\ UNCHANGED <<exposureFactor, contrastFactor, glyphWidth, quotes, loaded, served>>

\* the quote lists and glyph widths the model tries
CamQuotes == { <<>>, << <<"a">>, <<"a", " ", "b">> >> }
GlyphWidths == {18, 500}

\* the page once bootstrap has bound the controls and loaded the quotes, the
\* sliders at their initial value of 1
InitCam ==
  /\ quotes \in CamQuotes /\ lastQuote = <<>> /\ loaded = TRUE /\ served = <<>>
  /\ exposureFactor = FDen /\ contrastFactor = FDen
  /\ work = [width |-> 0, height |-> 0, data |-> <<>>]
  /\ output = [width |-> 300, height |-> 150, drawn |-> FALSE]
  /\ glyphWidth \in GlyphWidths
  /\ render = [called |-> FALSE, seq |-> 0, width |-> 0, height |-> 0]
  /\ quoteLines = <<>> /\ status = "none"
  /\ DitherIdle /\ ToneIdle /\ WrapIdle /\ CycleIdle

NextCam ==
  \/ handleCapture /\ UNCHANGED <<ditherVars, toneVars, wrapVars, cycleVars>>
  \/ handleFallbackImage /\ UNCHANGED <<ditherVars, toneVars, wrapVars, cycleVars>>
  \/ handleFallbackVideo /\ UNCHANGED <<ditherVars, toneVars, wrapVars, cycleVars>>

SpecCam == InitCam /\ [][NextCam]_vars

\* a step that calls renderPolaroid
RenderCall == render'.seq # render.seq

\* the handler of this step ended in an exception
Failed == status \in {"uncaught", "error"}

\* C6: for every renderPolaroid call the output canvas height equals
\* photoHeight + 2*padding + captionBandHeight + quoteBlockHeight, with
\* padding = 12, captionBandHeight = 60,
\* photoHeight = round(440 / sourceWidth * sourceHeight) and
\* quoteBlockHeight = 22 * lineCount + 10 + 12 for a quote of at least one line,
\* 0 otherwise; the output canvas width is 440 + 2*padding.  (A source of
\* width 0 has no such number for a photoHeight.)
C6_CanvasGeometry ==
  render.called =>
    /\ output.width = 440 + 2 * 12
    /\ render.width # 0
    /\ output.height =
         ((2 * 440 * render.height + render.width) \div (2 * render.width))
         + 2 * 12 + 60
         + (IF Len(quoteLines) > 0 THEN 22 * Len(quoteLines) + 10 + 12 ELSE 0)

\* The geometry of C6 for the calls whose source has a positive width: it
\* holds there, so C6 fails only where C9 does.
GeometryOfPositiveWidths ==
  (render.called /\ render.width > 0) =>
    /\ output.width = 440 + 2 * 12
    /\ output.height =
         ((2 * 440 * render.height + render.width) \div (2 * render.width))
         + 2 * 12 + 60
         + (IF Len(quoteLines) > 0 THEN 22 * Len(quoteLines) + 10 + 12 ELSE 0)

\* C9: when the source handed to renderPolaroid has width <= 0 or height <= 0,
\* on any capture path, composition fails before the output canvas is resized
\* or drawn to.
C9_BadSourceFailsFirst ==
  [][(RenderCall /\ (render'.width <= 0 \/ render'.height <= 0))
       => (Failed' /\ output' = output)]_vars

\* C14: getQuoteLines loses, duplicates and reorders no word: no returned line
\* is empty, and the returned lines joined by single spaces are the words of
\* the trimmed text, in order, joined by single spaces.
C14_NoWordLost ==
  wpc = "done" =>
    /\ \A i \in 1..Len(lines) : lines[i] # <<>>
    /\ joinWords(lines, Len(lines)) = joinWords(TextWords, Len(TextWords))
    /\ split(joinWords(lines, Len(lines))) = TextWords

\* three words wrapped into two lines, one of them holding two words
C14_Witness ==
  /\ wpc = "done"
  /\ Len(TextWords) >= 3
  /\ Len(lines) = 2
  /\ \E i \in 1..2 : Len(split(lines[i])) = 2

----------------------------------------------------------------------------
(* processDrawable, statement by statement *)

(* dpc is the statement processDrawable is at: "exposure", "contrast",      *)
(* "dither" (lines 316 to 318), "put" (line 319), or "ready" when it is not *)
(* running.  toneLog lists what has been applied to imgData since           *)
(* getImageData returned it, data0 is what getImageData returned.  The      *)
(* handlers run to completion, so a slider moves only between two runs.     *)

afterSwapped(stage) ==
  CASE stage = "getImageData" -> "contrast"
    [] stage = "contrast"     -> "exposure"
    [] stage = "exposure"     -> "dither"
    [] stage = "dither"       -> "put"

\* the statement that follows each statement of processDrawable
after(stage) ==
  CASE stage = "getImageData" -> "exposure"
    [] stage = "exposure"     -> "contrast"
    [] stage = "contrast"     -> "dither"
    [] stage = "dither"       -> "put"

\* the slider values the model tries, in units of 1/FDen
SliderValues == {FDen \div 2, FDen, FDen + FDen \div 2}

pipeFrame == <<output, glyphWidth, render, quoteLines, dx, dy, thrown,
               quoteVars, wrapVars, cycleVars>>

\* processDrawable up to getImageData, called by path with w and h; the
\* host's drawImage outcome belongs to renderPolaroid, which runs afterwards
enterProcessDrawable(path, w, h) ==
  \E frame \in Frames(w * h) : \E host \in HostOutcomes(w, h) \ {"drawImage throws"} :
    /\ status' = path
    /\ IF host = "getImageData throws"
         THEN /\ work' = [width |-> w, height |-> h, data |-> <<>>]
              /\ UNCHANGED <<data, data0, width, height, dpc, toneLog>>
         ELSE /\ work' = [width |-> w, height |-> h, data |-> Buffer(frame)]
              /\ data' = Buffer(frame) /\ data0' = Buffer(frame)
              /\ width' = w /\ height' = h
              /\ toneLog' = <<>>
              /\ dpc' = after("getImageData")

\* captureFrame: null unless videoWidth is truthy
captureFrame ==
  /\ dpc = "ready"
  /\ \E vw, vh \in 0..MaxSrc :
       IF vw = 0
         THEN /\ status' = "camera not ready"
              /\ UNCHANGED <<work, data, data0, width, height, dpc, toneLog>>
         ELSE enterProcessDrawable("camera", vw, vh)
  /\ UNCHANGED <<exposureFactor, contrastFactor, pipeFrame>>

\* processImageFile: img.onload calls processDrawable with naturalWidth, naturalHeight
processImageFile ==
  /\ dpc = "ready"
  /\ \E nw, nh \in 0..MaxSrc : enterProcessDrawable("image", nw, nh)
  /\ UNCHANGED <<exposureFactor, contrastFactor, pipeFrame>>

\* processVideoFile: rejects a video without videoWidth or videoHeight
processVideoFile ==
  /\ dpc = "ready"
  /\ \E vw, vh \in 0..MaxSrc :
       IF vw = 0 \/ vh = 0
         THEN /\ status' = "error"
              /\ UNCHANGED <<work, data, data0, width, height, dpc, toneLog>>
         ELSE enterProcessDrawable("video", vw, vh)
  /\ UNCHANGED <<exposureFactor, contrastFactor, pipeFrame>>

\* applyExposure(imgData, exposureFactor)
pdExposure ==
  /\ dpc = "exposure"
  /\ data' = applyExposure(data, exposureFactor)
  /\ toneLog' = Append(toneLog, <<"exposure", exposureFactor>>)
  /\ dpc' = after("exposure")
  /\ UNCHANGED <<data0, width, height, work, status, exposureFactor,
                 contrastFactor, pipeFrame>>

\* applyContrast(imgData, contrastFactor)
pdContrast ==
  /\ dpc = "contrast"
  /\ data' = applyContrast(data, contrastFactor)
  /\ toneLog' = Append(toneLog, <<"contrast", contrastFactor>>)
  /\ dpc' = after("contrast")
  /\ UNCHANGED <<data0, width, height, work, status, exposureFactor,
                 contrastFactor, pipeFrame>>

\* atkinsonDither(imgData, width, height)
pdDither ==
  /\ dpc = "dither"
  /\ data' = ditherFrom(data, width, height, 0)
  /\ toneLog' = Append(toneLog, <<"dither", 0>>)
  /\ dpc' = after("dither")
  /\ UNCHANGED <<data0, width, height, work, status, exposureFactor,
                 contrastFactor, pipeFrame>>

\* ctx.putImageData(imgData, 0, 0); return to the caller, which reports
\* success; imgData and the arguments go out of scope
pdPut ==
  /\ dpc = "put"
  /\ work' = [work EXCEPT !.data = data]
  /\ status' = "ok"
  /\ data' = <<>> /\ data0' = <<>> /\ width' = 0 /\ height' = 0
  /\ toneLog' = <<>>
  /\ dpc' = "ready"
  /\ UNCHANGED <<exposureFactor, contrastFactor, pipeFrame>>

\* exposureFactor = parseFloat(event.target.value), unless that is NaN
handleExposureChange ==
  /\ dpc = "ready"
  /\ \E f \in SliderValues : exposureFactor' = f
  /\ UNCHANGED <<contrastFactor, work, status, ditherVars, toneVars, pipeFrame>>

\* contrastFactor = parseFloat(event.target.value), unless that is NaN
handleContrastChange ==
  /\ dpc = "ready"
  /\ \E f \in SliderValues : contrastFactor' = f
  /\ UNCHANGED <<exposureFactor, work, status, ditherVars, toneVars, pipeFrame>>

InitPipeline ==
  /\ exposureFactor = FDen /\ contrastFactor = FDen
  /\ work = [width |-> 0, height |-> 0, data |-> <<>>]
  /\ output = [width |-> 300, height |-> 150, drawn |-> FALSE]
  /\ glyphWidth = 0
  /\ render = [called |-> FALSE, seq |-> 0, width |-> 0, height |-> 0]
  /\ quoteLines = <<>> /\ status = "none"
  /\ DitherIdle /\ ToneIdle /\ QuoteIdle /\ WrapIdle /\ CycleIdle

NextPipeline ==
  \/ captureFrame
  \/ processImageFile
  \/ processVideoFile
  \/ pdExposure
  \/ pdContrast
  \/ pdDither
  \/ pdPut
  \/ handleExposureChange
  \/ handleContrastChange

SpecPipeline == InitPipeline /\ [][NextPipeline]_vars

----------------------------------------------------------------------------
(* cycleCamera and the initCamera calls it starts *)

\* capture: the most video inputs a device reports
MaxDevices == 2

\* capture: the most taps and key presses on the preview
MaxCycleCalls == 3

\* what enumerateDevices can report: deviceIds 1..MaxDevices in any order,
\* none twice; <<>> also stands for a failed or unsupported enumeration
DeviceLists ==
  { l \in UNION { [1..n -> 1..MaxDevices] : n \in 0..MaxDevices } :
      \A i, j \in DOMAIN l : i # j => l[i] # l[j] }

Keys == {"Enter", " ", "Spacebar", "a"}
activateKeys == {"Enter", " ", "Spacebar"}

Remove(seq, i) == SubSeq(seq, 1, i - 1) \o SubSeq(seq, i + 1, Len(seq))

cycleCameraStartsUnguarded(cycling, strm, devices) ==
  strm # <<>> /\ Len(devices) > 1

\* the three early returns of cycleCamera
cycleCameraStarts(cycling, strm, devices) ==
  ~cycling /\ strm # <<>> /\ Len(devices) > 1

\* cycleCamera up to its await: a call that passes the guards sets the flag
\* and calls initCamera with the next device's id, which requests the camera
cycleCamera ==
  /\ Len(calls) < MaxCycleCalls
  /\ IF cycleCameraStarts(isCyclingCamera, stream, videoDevices)
       THEN LET nextIndex  == (currentDeviceIndex + 1) % Len(videoDevices)
                nextDevice == videoDevices[nextIndex + 1]
            IN  /\ isCyclingCamera' = TRUE
                /\ calls' = Append(calls, [busy |-> isCyclingCamera,
                                           requested |-> TRUE,
                                           switched |-> "pending"])
                /\ flights' = Append(flights, [origin |-> "cycleCamera",
                                               call |-> Len(calls) + 1,
                                               deviceId |-> nextDevice,
                                               phase |-> "getUserMedia",
                                               active |-> 0])
       ELSE /\ calls' = Append(calls, [busy |-> isCyclingCamera,
                                       requested |-> FALSE,
                                       switched |-> "none"])
            /\ UNCHANGED <<isCyclingCamera, flights>>
  /\ UNCHANGED <<stream, videoDevices, currentDeviceIndex>>

cycleFrame == <<ditherVars, toneVars, quoteVars, wrapVars, camVars>>

handlePreviewClick == cycleCamera /\ UNCHANGED cycleFrame

handlePreviewKeydown ==
  /\ \E key \in Keys :
       IF key \in activateKeys THEN cycleCamera ELSE UNCHANGED cycleVars
  /\ UNCHANGED cycleFrame

\* findIndex of the active deviceId; no change when it is undefined or absent
syncCurrentDeviceIndex(activeDeviceId, devices, cur) ==
  IF activeDeviceId = 0 THEN cur
  ELSE IF \E k \in DOMAIN devices : devices[k] = activeDeviceId
    THEN (CHOOSE k \in DOMAIN devices : devices[k] = activeDeviceId) - 1
    ELSE cur

\* initCamera returns result to its caller; cycleCamera then clears the flag
\* in the same turn of the event loop
settle(i, result) ==
  /\ flights' = Remove(flights, i)
  /\ IF flights[i].origin = "cycleCamera"
       THEN /\ isCyclingCamera' = FALSE
            /\ calls' = [calls EXCEPT ![flights[i].call].switched = result]
       ELSE UNCHANGED <<isCyclingCamera, calls>>

\* getUserMedia resolves: the stream is replaced, initCamera goes on to
\* refreshVideoDevices.  extractDeviceId may give undefined (0).
getUserMediaResolves ==
  /\ \E i \in DOMAIN flights :
       /\ flights[i].phase = "getUserMedia"
       /\ \E d \in (IF flights[i].deviceId # 0 THEN {flights[i].deviceId}
                    ELSE 1..MaxDevices) :
          \E a \in {d, 0} :
            /\ stream' = <<d>>
            /\ flights' = [flights EXCEPT ![i].phase = "enumerateDevices",
                                          ![i].active = a]
  /\ UNCHANGED <<isCyclingCamera, videoDevices, currentDeviceIndex, calls>>
  /\ UNCHANGED cycleFrame

\* getUserMedia rejects: the catch block makes initCamera return false
getUserMediaRejects ==
  /\ \E i \in DOMAIN flights :
       /\ flights[i].phase = "getUserMedia"
       /\ settle(i, "false")
  /\ UNCHANGED <<stream, videoDevices, currentDeviceIndex>>
  /\ UNCHANGED cycleFrame

\* refreshVideoDevices finishes, with a list or with [] after a failure;
\* syncCurrentDeviceIndex; initCamera returns true
enumerateDevicesSettles ==
  /\ \E i \in DOMAIN flights :
       /\ flights[i].phase = "enumerateDevices"
       /\ \E devices \in DeviceLists :
            /\ videoDevices' = devices
            /\ currentDeviceIndex' =
                 syncCurrentDeviceIndex(flights[i].active, devices,
                                        currentDeviceIndex)
       /\ settle(i, "true")
  /\ UNCHANGED stream
  /\ UNCHANGED cycleFrame

\* bootstrap has called initCamera(), which awaits getUserMedia, or has
\* returned at once where getUserMedia is missing
InitCycle ==
  /\ isCyclingCamera = FALSE /\ stream = <<>> /\ videoDevices = <<>>
  /\ currentDeviceIndex = 0 /\ calls = <<>>
  /\ flights \in { <<>>, << [origin |-> "bootstrap", call |-> 0, deviceId |-> 0,
                            phase |-> "getUserMedia", active |-> 0] >> }
  /\ DitherIdle /\ ToneIdle /\ QuoteIdle /\ WrapIdle /\ CamIdle

NextCycle ==
  \/ handlePreviewClick
  \/ handlePreviewKeydown
  \/ getUserMediaResolves
  \/ getUserMediaRejects
  \/ enumerateDevicesSettles

SpecCycle == InitCycle /\ [][NextCycle]_vars

IsSwitch(f) == f.origin = "cycleCamera"

\* the camera switches cycleCamera has started that have not settled
switchesInFlight == SelectSeq(flights, IsSwitch)

\* C15: at most one camera switch started by cycleCamera is in flight; a call
\* made while isCyclingCamera is true requests no camera; and once the switch
\* in flight has settled, by success or by failure, isCyclingCamera is false.
C15_OneSwitchInFlight ==
  /\ Len(switchesInFlight) <= 1
  /\ \A k \in DOMAIN calls : calls[k].busy => ~calls[k].requested
  /\ switchesInFlight = <<>> => ~isCyclingCamera
  /\ \A k \in DOMAIN calls :
       calls[k].switched = "pending" <=>
         \E i \in DOMAIN flights : IsSwitch(flights[i]) /\ flights[i].call = k

\* a switch that failed with a call ignored while it was in flight, then a
\* switch that succeeded, and nothing in flight any more
C15_Witness ==
  /\ Len(calls) = 3
  /\ calls[1].switched = "false"
  /\ calls[2].busy /\ ~calls[2].requested
  /\ calls[3].switched = "true"
  /\ switchesInFlight = <<>> /\ ~isCyclingCamera

====
